---- MODULE Spec2Model ----
(***************************************************************************)
(* Model of the T1 equity token (src/equity.py): a shareholder registry    *)
(* with a balance ledger, a delegation graph, two vote policies and a      *)
(* stock split.  Every public call runs to completion before the next one; *)
(* one action below is one call, made by a sender drawn from Addresses.    *)
(*                                                                         *)
(* The ledger primitives (pikciotok.base: transfer, mint, burn, Balances,  *)
(* minted, burnt) are not part of src/; they are modelled from sections 3  *)
(* and 6 of the specification.  The allowance table is kept because      *)
(* transfer_from moves balances; name and symbol are not read by any       *)
(* operation modelled here and are left out.                               *)
(***************************************************************************)
EXTENDS Integers, FiniteSets, Sequences, TLC

(* ------------------------------ bounds --------------------------------- *)

\* Largest total supply, and largest sum of balances, the model explores.
MaxSupply == 3

\* The supply of the registry the rights are queried in: a holder of k units
\* weighs k / RightsSupply, which meets every threshold of the rights table.
RightsSupply == 40

(* ----------------------------- constants ------------------------------- *)

_VOTE_POLICY_ODOV == 1
_VOTE_POLICY_OPOV == 2
decimals == 0

\* The supply and the amount transferred in the scenario of test.py.
DemoSupply == 13000000
DemoTransfer == 1200000

\* The accounts that call the token.
Addresses == {"a1", "a2", "a3"}
\* Python's '' (no delegate, no emitter) and None (omitted address).
Empty == ""
None == "None"

\* Split factors, as fractions <<numerator, denominator>>; all are exactly
\* representable as floats: -1, 0, 0.5, 1, 1.5, 2.
Factors == {<<-1, 1>>, <<0, 1>>, <<1, 2>>, <<1, 1>>, <<3, 2>>, <<2, 1>>}
Amounts == 0..MaxSupply
VoteModes == {_VOTE_POLICY_ODOV, _VOTE_POLICY_OPOV}
\* Dividend rates, in hundredths: 0.0 and 0.05.
Rates == {0, 5}
\* The accounts that approve a spender, the spenders they approve, the
\* amounts approved and the changes of an approval.
Approvers == {"a1"}
Spenders == {"a2"}
Approvals == {0, 1}
ApprovalDeltas == {-1, 1}

\* Error kinds (all are ValueError in the code, told apart by their message).
NoError == "none"
Unauthorized == "Unauthorized"
InvalidArgument == "InvalidArgument"
NotAShareholder == "NotAShareholder"
InsufficientFunds == "InsufficientFunds"
InsufficientAllowance == "InsufficientAllowance"
\* Python's ZeroDivisionError.
ZeroDivision == "ZeroDivision"

VARIABLES
    total_supply,   \* equity.total_supply
    balance_of,     \* equity.balance_of: dict address -> balance
    vote_mode,      \* equity.vote_mode
    emitter,        \* equity.emitter
    dividend,       \* equity.dividend, in hundredths
    delegations,    \* equity.delegations: dict delegator -> delegate
    allowances,     \* equity.allowances: <<owner, spender>> -> remaining amount
    observing,      \* whether the outcome of each call is being recorded
    last,           \* the last call observed: name, sender, arguments, error, return value
    events          \* the notifications the last call observed emitted

vars == <<total_supply, balance_of, vote_mode, emitter, dividend, delegations,
          allowances, observing, last, events>>
\* The globals of equity.py.
state == <<total_supply, balance_of, vote_mode, emitter, dividend, delegations,
           allowances>>

(* ------------------------------ helpers -------------------------------- *)

\* An empty dict.
EmptyDict == [x \in {} |-> 0]

\* d[k] = v, inserting the key when it is missing.
DictSet(d, k, v) == [x \in (DOMAIN d) \cup {k} |-> IF x = k THEN v ELSE d[x]]

\* del d[k]
DictDel(d, k) == [x \in (DOMAIN d) \ {k} |-> d[x]]

RECURSIVE SumOver(_, _)
\* sum(d[k] for k in S)
SumOver(d, S) ==
    IF S = {} THEN 0
    ELSE LET k == CHOOSE x \in S : TRUE IN d[k] + SumOver(d, S \ {k})

\* sum(balance_of[account] for account in balance_of)
SumBalances(b) == SumOver(b, DOMAIN b)

\* Python truthiness of an address argument.
Falsy(a) == a = Empty \/ a = None

\* Python's `address or context.sender`.
OrSender(address, sender) == IF Falsy(address) THEN sender ELSE address

Ok(v) == [err |-> NoError, val |-> v]
Raise(kind) == [err |-> kind, val |-> 0]

(* ------------------------ ledger adapter (base) ------------------------ *)

\* base.Balances(balance_of).get(address): a missing account counts as 0
\* (base.missing_balance_means_zero = True).
BalancesGet(b, address) == IF address \in DOMAIN b THEN b[address] ELSE 0

\* The ledger stores no empty account: an account whose balance reaches 0 is
\* removed.
Prune(b, address) ==
    IF address \in DOMAIN b /\ b[address] = 0 THEN DictDel(b, address) ELSE b

\* base.transfer(balance_of, sender, to_address, amount), on the balances.
BaseTransfer(b, from, to, amount) ==
    LET debited == DictSet(b, from, BalancesGet(b, from) - amount)
        credited == DictSet(debited, to, BalancesGet(debited, to) + amount)
    IN Prune(Prune(credited, from), to)

\* base.Allowances(allowances).get_one(on_address, allowed_address): what
\* `spender` may still take from `owner`, 0 when nothing was approved.
AllowancesGetOne(al, owner, spender) ==
    IF <<owner, spender>> \in DOMAIN al THEN al[<<owner, spender>>] ELSE 0

\* The allowance of `spender` on `owner` set to `amount`; an allowance of 0
\* is the same as none.
AllowancesSet(al, owner, spender, amount) ==
    IF amount = 0 THEN DictDel(al, <<owner, spender>>)
    ELSE DictSet(al, <<owner, spender>>, amount)

\* base.mint(balance_of, total_supply, address, amount), on the balances.
BaseMint(b, address, amount) ==
    Prune(DictSet(b, address, BalancesGet(b, address) + amount), address)

\* base.burn(balance_of, total_supply, address, amount), on the balances.
BaseBurn(b, address, amount) ==
    Prune(DictSet(b, address, BalancesGet(b, address) - amount), address)

\* base.minted / base.burnt notifications.
Minted(sender, amount, new_supply) ==
    [type |-> "minted", sender |-> sender, amount |-> amount, new_supply |-> new_supply]
Burnt(sender, amount, new_supply) ==
    [type |-> "burnt", sender |-> sender, amount |-> amount, new_supply |-> new_supply]

(* ------------------------------- queries ------------------------------- *)
\* Every query takes the calling sender (context.sender) and the address
\* argument, which is None when the caller omits it.

get_delegate(sender, address) ==
    LET a == OrSender(address, sender)
    IN IF a \in DOMAIN delegations THEN delegations[a] ELSE Empty

get_total_shareholders == Cardinality(DOMAIN balance_of)

is_shareholder(sender, address) == OrSender(address, sender) \in DOMAIN balance_of

\* TRUE when _assert_is_shareholder(address) raises.
_assert_is_shareholder(sender, address) == ~is_shareholder(sender, address)

is_delegating(sender, address) == get_delegate(sender, address) # Empty

\* The addresses of the tuple get_delegators returns, as a set.
get_delegators(sender, address) ==
    IF _assert_is_shareholder(sender, address) THEN Raise(NotAShareholder)
    ELSE Ok({addr \in DOMAIN delegations : delegations[addr] = address})

get_organic_shares(sender, address) ==
    IF _assert_is_shareholder(sender, address) THEN Raise(NotAShareholder)
    ELSE Ok(BalancesGet(balance_of, address))

RECURSIVE SumResults(_, _)
\* sum(f(addr) for addr in S) where f[addr] is a result: the first error is
\* raised, and all errors here are of one kind.
SumResults(f, S) ==
    IF S = {} THEN Ok(0)
    ELSE LET k == CHOOSE x \in S : TRUE
             rest == SumResults(f, S \ {k})
         IN IF f[k].err # NoError THEN f[k]
            ELSE IF rest.err # NoError THEN rest
            ELSE Ok(f[k].val + rest.val)

\* a + b on two results.
Plus(a, b) ==
    IF a.err # NoError THEN a
    ELSE IF b.err # NoError THEN b
    ELSE Ok(a.val + b.val)

get_delegated_shares(sender, address) ==
    LET ds == get_delegators(sender, address)
    IN IF ds.err # NoError THEN ds
       ELSE SumResults([addr \in ds.val |-> get_organic_shares(sender, addr)], ds.val)

\* get_shares without the test on is_delegating: a delegating holder keeps
\* its stake.
get_shares_KeepsWhenDelegating(sender, address) ==
    IF _assert_is_shareholder(sender, address) THEN Raise(NotAShareholder)
    ELSE Plus(get_delegated_shares(sender, address), get_organic_shares(sender, address))

get_shares(sender, address) ==
    IF _assert_is_shareholder(sender, address) THEN Raise(NotAShareholder)
    ELSE IF is_delegating(sender, address) THEN Ok(0)
    ELSE Plus(get_delegated_shares(sender, address), get_organic_shares(sender, address))

get_total_votes ==
    IF vote_mode = _VOTE_POLICY_ODOV THEN total_supply ELSE Cardinality(DOMAIN balance_of)

get_organic_votes(sender, address) ==
    IF vote_mode = _VOTE_POLICY_ODOV THEN get_shares(sender, address) ELSE Ok(1)

get_delegated_votes(sender, address) ==
    LET ds == get_delegators(sender, address)
    IN IF ds.err # NoError THEN ds
       ELSE SumResults([addr \in ds.val |-> get_organic_votes(sender, addr)], ds.val)

\* get_votes with the conditional binding to the second operand only:
\* delegated + (organic if not delegating else 0).
get_votes_ConditionalOnOrganicOnly(sender, address) ==
    Plus(get_delegated_votes(sender, address),
         IF is_delegating(sender, address) THEN Ok(0)
         ELSE get_organic_votes(sender, address))

get_votes(sender, address) ==
    IF is_delegating(sender, address) THEN Ok(0)
    ELSE Plus(get_delegated_votes(sender, address), get_organic_votes(sender, address))

(* ------------------------------- weights ------------------------------- *)
\* A weight is the float votes / total votes; it is kept as the fraction
\* <<votes, total votes>>, and compared with the float literals of the code
\* (0.5, 0.05, 0.1, 0.15, 0.25, kept as fractions too) by cross-multiplying.
\* At the magnitudes of this model the correctly rounded quotient compares
\* with the rounded literal as the exact fractions do.

\* a / total on a result and a number: the dividend is evaluated first.
Div(a, total) ==
    IF a.err # NoError THEN a
    ELSE IF total = 0 THEN Raise(ZeroDivision)
    ELSE Ok(<<a.val, total>>)

\* w >= t and w > t for a weight w and a literal t with a positive
\* denominator. The total of votes, the denominator of w, is negative when the
\* total supply is: multiplying by it turns the comparison round.
AtLeast(w, t) ==
    IF w[2] > 0 THEN w[1] * t[2] >= t[1] * w[2] ELSE w[1] * t[2] <= t[1] * w[2]
MoreThan(w, t) ==
    IF w[2] > 0 THEN w[1] * t[2] > t[1] * w[2] ELSE w[1] * t[2] < t[1] * w[2]

get_organic_weight(sender, address) ==
    Div(get_organic_votes(sender, address), get_total_votes)

get_delegated_weight(sender, address) ==
    Div(get_delegated_votes(sender, address), get_total_votes)

get_weight(sender, address) ==
    Div(get_votes(sender, address), get_total_votes)

is_organic_majority(sender, address) ==
    LET w == get_organic_weight(sender, address)
    IN IF w.err # NoError THEN w ELSE Ok(MoreThan(w.val, <<1, 2>>))

is_majority(sender, address) ==
    LET w == get_weight(sender, address)
    IN IF w.err # NoError THEN w ELSE Ok(MoreThan(w.val, <<1, 2>>))

\* The rights of minority shareholders by minimum weight, in the order of the
\* dict literal, which is the order its items are iterated in.
_SHAREHOLDERS_RIGHTS == <<
    [min_weight |-> <<5, 100>>, rights |-> <<
        "apply to court to prevent the conversion of a public company into a private company",
        "call a general meeting",
        "require the circulation of a written resolution to shareholders (in private companies)",
        "require the passing of a resolution at an annual general meeting (AGM) of a public company.">>],
    [min_weight |-> <<10, 100>>, rights |-> <<
        "call for a poll vote on a resolution",
        "right to prevent a meeting being held on short notice (in private companies).">>],
    [min_weight |-> <<15, 100>>, rights |-> <<
        "apply to the court to cancel a variation of class rights, provided such shareholders did not consent to, or vote in favour of, the variation.">>],
    [min_weight |-> <<25, 100>>, rights |-> <<
        "prevent the passing of a special resolution">>] >>

RECURSIVE ChainStrict(_, _)
\* The chain of the right-lists whose minimum weight is below the percentage.
ChainStrict(percentage, i) ==
    IF i > Len(_SHAREHOLDERS_RIGHTS) THEN <<>>
    ELSE (IF MoreThan(percentage, _SHAREHOLDERS_RIGHTS[i].min_weight)
          THEN _SHAREHOLDERS_RIGHTS[i].rights ELSE <<>>)
         \o ChainStrict(percentage, i + 1)

\* _get_rights with percentage > min_weight: a threshold unlocks nothing at
\* the threshold itself.
_get_rights_AboveThreshold(percentage) == ChainStrict(percentage, 1)

RECURSIVE Chain(_, _)
\* itertools.chain.from_iterable over the items from the i-th on.
Chain(percentage, i) ==
    IF i > Len(_SHAREHOLDERS_RIGHTS) THEN <<>>
    ELSE (IF AtLeast(percentage, _SHAREHOLDERS_RIGHTS[i].min_weight)
          THEN _SHAREHOLDERS_RIGHTS[i].rights ELSE <<>>)
         \o Chain(percentage, i + 1)

_get_rights(percentage) == Chain(percentage, 1)

get_organic_rights(sender, address) ==
    LET w == get_organic_weight(sender, address)
    IN IF w.err # NoError THEN w ELSE Ok(_get_rights(w.val))

get_rights(sender, address) ==
    LET w == get_weight(sender, address)
    IN IF w.err # NoError THEN w ELSE Ok(_get_rights(w.val))


(* ------------------------------- actions ------------------------------- *)

\* The module's globals as equity.py sets them when it is loaded.
Loaded ==
    /\ total_supply = 0
    /\ balance_of = EmptyDict
    /\ vote_mode = _VOTE_POLICY_ODOV
    /\ emitter = Empty
    /\ dividend = 0
    /\ delegations = EmptyDict
    /\ allowances = EmptyDict
    /\ last = [op |-> "none", sender |-> Empty, args |-> <<>>, err |-> NoError, ret |-> None]
    /\ events = <<>>

\* The registry alone: the outcomes of the calls are not recorded.
Init == Loaded /\ observing = FALSE

\* The registry with the outcome of every call recorded.
InitCalls == Loaded /\ observing = TRUE

\* The call emits the notifications `evs`, in this order.
Emits(evs) == events' = IF observing THEN evs ELSE events

\* The call `op(args)` by `sender` returns `ret`.
Returns(op, sender, args, ret) ==
    /\ last' = IF observing
               THEN [op |-> op, sender |-> sender, args |-> args, err |-> NoError, ret |-> ret]
               ELSE last
    /\ observing' = observing

\* The call `op(args)` by `sender` raises `kind`: nothing was assigned before
\* the raise.
Fails(op, sender, args, kind) ==
    /\ last' = IF observing
               THEN [op |-> op, sender |-> sender, args |-> args, err |-> kind, ret |-> None]
               ELSE last
    /\ Emits(<<>>)
    /\ UNCHANGED <<state, observing>>

\* No check at all: everyone passes for the emitter.
_assert_is_emitter_AcceptsAnyone(address) == FALSE

\* TRUE when _assert_is_emitter(address) raises.
_assert_is_emitter(address) == address # emitter

\* round-up instead of truncation.
IntMul_RoundsUp(balance, factor) ==
    LET n == balance * factor[1]
    IN (n + factor[2] - 1) \div factor[2]

\* int(balance * factor): truncation toward zero.
IntMul(balance, factor) ==
    LET n == balance * factor[1]
    IN IF n >= 0 THEN n \div factor[2] ELSE -((-n) \div factor[2])

\* factor < 0: a factor of 0 is let through.
NonPositive_ZeroAllowed(factor) == factor[1] < 0

\* factor <= 0
NonPositive(factor) == factor[1] <= 0

init(sender, supply) ==
    LET amount == supply * (10 ^ decimals)
        b == DictSet(balance_of, sender, amount)
    IN /\ SumBalances(b) <= MaxSupply
       /\ emitter' = sender
       /\ balance_of' = b
       /\ total_supply' = amount
       /\ Emits(<<>>)
       /\ Returns("init", sender, <<supply>>, None)
       /\ UNCHANGED <<vote_mode, dividend, delegations, allowances>>

transfer(sender, to_address, amount) ==
    IF BalancesGet(balance_of, sender) < amount
    THEN Fails("transfer", sender, <<to_address, amount>>, InsufficientFunds)
    ELSE /\ balance_of' = BaseTransfer(balance_of, sender, to_address, amount)
         /\ Emits(<<>>)
         /\ Returns("transfer", sender, <<to_address, amount>>, TRUE)
         /\ UNCHANGED <<total_supply, vote_mode, emitter, dividend, delegations, allowances>>

approve(sender, to_address, amount) ==
    /\ allowances' = AllowancesSet(allowances, sender, to_address, amount)
    /\ Emits(<<>>)
    /\ Returns("approve", sender, <<to_address, amount>>, TRUE)
    /\ UNCHANGED <<total_supply, balance_of, vote_mode, emitter, dividend, delegations>>

\* The new allowance is returned; only the updates that leave an allowance
\* within Approvals are explored.
update_approve(sender, to_address, delta_amount) ==
    LET updated == AllowancesGetOne(allowances, sender, to_address) + delta_amount
    IN /\ updated \in Approvals
       /\ allowances' = AllowancesSet(allowances, sender, to_address, updated)
       /\ Emits(<<>>)
       /\ Returns("update_approve", sender, <<to_address, delta_amount>>, updated)
       /\ UNCHANGED <<total_supply, balance_of, vote_mode, emitter, dividend, delegations>>

\* The sender spends its allowance on from_address. When both the allowance
\* and the balance are short, either error may be the one raised.
transfer_from(sender, from_address, to_address, amount) ==
    LET args == <<from_address, to_address, amount>>
        allowed == AllowancesGetOne(allowances, from_address, sender) >= amount
        funded == BalancesGet(balance_of, from_address) >= amount
    IN \/ ~allowed /\ Fails("transfer_from", sender, args, InsufficientAllowance)
       \/ ~funded /\ Fails("transfer_from", sender, args, InsufficientFunds)
       \/ /\ allowed /\ funded
          /\ balance_of' = BaseTransfer(balance_of, from_address, to_address, amount)
          /\ allowances' = AllowancesSet(allowances, from_address, sender,
                               AllowancesGetOne(allowances, from_address, sender) - amount)
          /\ Emits(<<>>)
          /\ Returns("transfer_from", sender, args, TRUE)
          /\ UNCHANGED <<total_supply, vote_mode, emitter, dividend, delegations>>

mint(sender, amount) ==
    IF _assert_is_emitter(sender) THEN Fails("mint", sender, <<amount>>, Unauthorized)
    ELSE /\ total_supply + amount <= MaxSupply
         /\ SumBalances(balance_of) + amount <= MaxSupply
         /\ balance_of' = BaseMint(balance_of, sender, amount)
         /\ total_supply' = total_supply + amount
         /\ Emits(<<Minted(sender, amount, total_supply + amount)>>)
         /\ Returns("mint", sender, <<amount>>, total_supply + amount)
         /\ UNCHANGED <<vote_mode, emitter, dividend, delegations, allowances>>

burn(sender, amount) ==
    IF _assert_is_emitter(sender) THEN Fails("burn", sender, <<amount>>, Unauthorized)
    ELSE IF BalancesGet(balance_of, sender) < amount
    THEN Fails("burn", sender, <<amount>>, InsufficientFunds)
    ELSE /\ balance_of' = BaseBurn(balance_of, sender, amount)
         /\ total_supply' = total_supply - amount
         /\ Emits(<<Burnt(sender, amount, total_supply - amount)>>)
         /\ Returns("burn", sender, <<amount>>, total_supply - amount)
         /\ UNCHANGED <<vote_mode, emitter, dividend, delegations, allowances>>

\* The "burnt" notification carrying the signed change of supply.
SplitEvents_SignedAmount(delta_supply, new_total_supply) ==
    IF delta_supply > 0 THEN <<Minted(emitter, delta_supply, new_total_supply)>>
    ELSE IF delta_supply < 0 THEN <<Burnt(emitter, delta_supply, new_total_supply)>>
    ELSE <<>>

\* The notification split_stock raises for a change of supply.
SplitEvents(delta_supply, new_total_supply) ==
    IF delta_supply > 0 THEN <<Minted(emitter, delta_supply, new_total_supply)>>
    ELSE IF delta_supply < 0 THEN <<Burnt(emitter, -delta_supply, new_total_supply)>>
    ELSE <<>>

\* The balances after the loop of split_stock.
SplitBalances(b, factor) == [account \in DOMAIN b |-> IntMul(b[account], factor)]

split_stock(sender, factor) ==
    IF _assert_is_emitter(sender) THEN Fails("split_stock", sender, <<factor>>, Unauthorized)
    ELSE IF NonPositive(factor) THEN Fails("split_stock", sender, <<factor>>, InvalidArgument)
    ELSE LET b == SplitBalances(balance_of, factor)
             new_total_supply == SumBalances(b)
             delta_supply == new_total_supply - total_supply
         IN /\ new_total_supply <= MaxSupply
            /\ balance_of' = b
            /\ Emits(SplitEvents(delta_supply, new_total_supply))
            /\ total_supply' = new_total_supply
            /\ Returns("split_stock", sender, <<factor>>, new_total_supply)
            /\ UNCHANGED <<vote_mode, emitter, dividend, delegations, allowances>>

\* set_vote_mode returning the mode it has just set.
set_vote_mode_ReturnsNew(sender, mode) ==
    IF _assert_is_emitter(sender) THEN Fails("set_vote_mode", sender, <<mode>>, Unauthorized)
    ELSE /\ vote_mode' = mode
         /\ Emits(<<>>)
         /\ Returns("set_vote_mode", sender, <<mode>>, mode)
         /\ UNCHANGED <<total_supply, balance_of, emitter, dividend, delegations, allowances>>

set_vote_mode(sender, mode) ==
    IF _assert_is_emitter(sender) THEN Fails("set_vote_mode", sender, <<mode>>, Unauthorized)
    ELSE /\ vote_mode' = mode
         /\ Emits(<<>>)
         /\ Returns("set_vote_mode", sender, <<mode>>, vote_mode)
         /\ UNCHANGED <<total_supply, balance_of, emitter, dividend, delegations, allowances>>

set_dividend(sender, dividend_) ==
    IF _assert_is_emitter(sender) THEN Fails("set_dividend", sender, <<dividend_>>, Unauthorized)
    ELSE /\ dividend' = dividend_
         /\ Emits(<<>>)
         /\ Returns("set_dividend", sender, <<dividend_>>, dividend)
         /\ UNCHANGED <<total_supply, balance_of, vote_mode, emitter, delegations, allowances>>

\* set_delegate returning the new delegate instead of the previous one.
set_delegate_ReturnsNew(sender, to_address) ==
    IF Falsy(to_address) THEN Fails("set_delegate", sender, <<to_address>>, InvalidArgument)
    ELSE /\ delegations' = DictSet(delegations, sender, to_address)
         /\ Emits(<<>>)
         /\ Returns("set_delegate", sender, <<to_address>>, to_address)
         /\ UNCHANGED <<total_supply, balance_of, vote_mode, emitter, dividend, allowances>>

set_delegate(sender, to_address) ==
    IF Falsy(to_address) THEN Fails("set_delegate", sender, <<to_address>>, InvalidArgument)
    ELSE /\ delegations' = DictSet(delegations, sender, to_address)
         /\ Emits(<<>>)
         /\ Returns("set_delegate", sender, <<to_address>>, get_delegate(sender, None))
         /\ UNCHANGED <<total_supply, balance_of, vote_mode, emitter, dividend, allowances>>

remove_delegate(sender) ==
    LET previous_delegate == get_delegate(sender, None)
    IN /\ delegations' = IF previous_delegate # Empty
                         THEN DictDel(delegations, sender) ELSE delegations
       /\ Emits(<<>>)
       /\ Returns("remove_delegate", sender, <<>>, previous_delegate)
       /\ UNCHANGED <<total_supply, balance_of, vote_mode, emitter, dividend, allowances>>

\* A call of the query get_delegators(address): it assigns nothing.
get_delegators_call(sender, address) ==
    LET r == get_delegators(sender, address)
    IN IF r.err # NoError THEN Fails("get_delegators", sender, <<address>>, r.err)
       ELSE /\ Emits(<<>>)
            /\ Returns("get_delegators", sender, <<address>>, r.val)
            /\ UNCHANGED state

\* A call of the query get_rights(address): it assigns nothing.
get_rights_call(sender, address) ==
    LET r == get_rights(sender, address)
    IN IF r.err # NoError THEN Fails("get_rights", sender, <<address>>, r.err)
       ELSE /\ Emits(<<>>)
            /\ Returns("get_rights", sender, <<address>>, r.val)
            /\ UNCHANGED state

Next ==
    \E sender \in Addresses :
        \/ \E supply \in Amounts : init(sender, supply)
        \/ \E to \in Addresses, amount \in Amounts : transfer(sender, to, amount)
        \/ \E to \in Spenders, amount \in Approvals :
             sender \in Approvers /\ approve(sender, to, amount)
        \/ \E to \in Spenders, delta \in ApprovalDeltas :
             sender \in Approvers /\ update_approve(sender, to, delta)
        \/ \E from \in Approvers, to \in Addresses, amount \in Approvals :
             transfer_from(sender, from, to, amount)
        \/ \E amount \in Amounts : mint(sender, amount)
        \/ \E amount \in Amounts : burn(sender, amount)
        \/ \E factor \in Factors : split_stock(sender, factor)
        \/ \E mode \in VoteModes : set_vote_mode(sender, mode)
        \/ \E rate \in Rates : set_dividend(sender, rate)
        \/ \E to \in Addresses \cup {Empty} : set_delegate(sender, to)
        \/ remove_delegate(sender)

Spec == Init /\ [][Next]_vars


\* The calls that change what shares and votes are computed from: balances,
\* total supply, vote policy and delegations (with the approvals that
\* transfer_from needs).
NextVotes ==
    \E sender \in Addresses :
        \/ \E supply \in Amounts : init(sender, supply)
        \/ \E to \in Addresses, amount \in Amounts : transfer(sender, to, amount)
        \/ \E to \in Spenders, amount \in Approvals :
             sender \in Approvers /\ approve(sender, to, amount)
        \/ \E from \in Approvers, to \in Addresses, amount \in Approvals :
             transfer_from(sender, from, to, amount)
        \/ \E amount \in Amounts : mint(sender, amount)
        \/ \E amount \in Amounts : burn(sender, amount)
        \/ \E factor \in Factors : split_stock(sender, factor)
        \/ \E mode \in VoteModes : set_vote_mode(sender, mode)
        \/ \E to \in Addresses \cup {Empty} : set_delegate(sender, to)
        \/ remove_delegate(sender)

SpecVotes == Init /\ [][NextVotes]_vars

\* The calls that change the ledger, with their outcomes recorded.
NextLedger ==
    \E sender \in Addresses :
        \/ \E supply \in Amounts : init(sender, supply)
        \/ \E to \in Addresses, amount \in Amounts : transfer(sender, to, amount)
        \/ \E to \in Spenders, amount \in Approvals :
             sender \in Approvers /\ approve(sender, to, amount)
        \/ \E to \in Spenders, delta \in ApprovalDeltas :
             sender \in Approvers /\ update_approve(sender, to, delta)
        \/ \E from \in Approvers, to \in Addresses, amount \in Approvals :
             transfer_from(sender, from, to, amount)
        \/ \E amount \in Amounts : mint(sender, amount)
        \/ \E amount \in Amounts : burn(sender, amount)
        \/ \E factor \in Factors : split_stock(sender, factor)

SpecLedger == InitCalls /\ [][NextLedger]_vars

\* The registry after a2: set_delegate('a1') and a3: set_delegate('a2'), which
\* any sender may call before init, with the outcome of every call recorded.
InitAdmin ==
    /\ total_supply = 0
    /\ balance_of = EmptyDict
    /\ vote_mode = _VOTE_POLICY_ODOV
    /\ emitter = Empty
    /\ dividend = 0
    /\ delegations = [x \in {"a2", "a3"} |-> IF x = "a2" THEN "a1" ELSE "a2"]
    /\ allowances = EmptyDict
    /\ observing = TRUE
    /\ last = [op |-> "set_delegate", sender |-> "a3", args |-> <<"a2">>,
               err |-> NoError, ret |-> Empty]
    /\ events = <<>>

\* init and the emitter-only calls, made by every sender.
NextAdmin ==
    \E sender \in Addresses :
        \/ \E supply \in Amounts : init(sender, supply)
        \/ \E amount \in Amounts : mint(sender, amount)
        \/ \E amount \in Amounts : burn(sender, amount)
        \/ \E factor \in Factors : split_stock(sender, factor)
        \/ \E mode \in VoteModes : set_vote_mode(sender, mode)
        \/ \E rate \in Rates : set_dividend(sender, rate)

SpecAdmin == InitAdmin /\ [][NextAdmin]_vars

\* The registry after a1: init(MaxSupply), with the outcome of every call
\* recorded.
InitDelegation ==
    /\ total_supply = MaxSupply * (10 ^ decimals)
    /\ balance_of = [x \in {"a1"} |-> MaxSupply * (10 ^ decimals)]
    /\ vote_mode = _VOTE_POLICY_ODOV
    /\ emitter = "a1"
    /\ dividend = 0
    /\ delegations = EmptyDict
    /\ allowances = EmptyDict
    /\ observing = TRUE
    /\ last = [op |-> "init", sender |-> "a1", args |-> <<MaxSupply>>,
               err |-> NoError, ret |-> None]
    /\ events = <<>>

\* Transfers, the delegation calls, the query of the delegators and the
\* switch of the vote policy, made by every sender.
NextDelegation ==
    \E sender \in Addresses :
        \/ \E to \in Addresses, amount \in Amounts : transfer(sender, to, amount)
        \/ \E to \in Addresses \cup {Empty} : set_delegate(sender, to)
        \/ remove_delegate(sender)
        \/ \E address \in Addresses : get_delegators_call(sender, address)
        \/ \E mode \in VoteModes : set_vote_mode(sender, mode)

SpecDelegation == InitDelegation /\ [][NextDelegation]_vars

\* The registry after a1: init(RightsSupply), with the outcome of every call
\* recorded.
InitRights ==
    /\ total_supply = RightsSupply * (10 ^ decimals)
    /\ balance_of = [x \in {"a1"} |-> RightsSupply * (10 ^ decimals)]
    /\ vote_mode = _VOTE_POLICY_ODOV
    /\ emitter = "a1"
    /\ dividend = 0
    /\ delegations = EmptyDict
    /\ allowances = EmptyDict
    /\ observing = TRUE
    /\ last = [op |-> "init", sender |-> "a1", args |-> <<RightsSupply>>,
               err |-> NoError, ret |-> None]
    /\ events = <<>>

\* Transfers and the query of the rights, made by every sender.
NextRights ==
    \E sender \in Addresses :
        \/ \E to \in Addresses, amount \in Amounts : transfer(sender, to, amount)
        \/ \E address \in Addresses : get_rights_call(sender, address)

SpecRights == InitRights /\ [][NextRights]_vars

\* The registry of test.py after "Pikcio SA", here a1, has called
\* init(supply=13000000).
InitDemo ==
    /\ total_supply = DemoSupply * (10 ^ decimals)
    /\ balance_of = [x \in {"a1"} |-> DemoSupply * (10 ^ decimals)]
    /\ vote_mode = _VOTE_POLICY_ODOV
    /\ emitter = "a1"
    /\ dividend = 0
    /\ delegations = EmptyDict
    /\ allowances = EmptyDict
    /\ observing = FALSE
    /\ last = [op |-> Empty, sender |-> Empty, args |-> <<>>, err |-> NoError, ret |-> None]
    /\ events = <<>>

\* The calls of test.py, transfers of 1200000 and switches of the vote
\* policy, and the delegation calls, made by every sender.
NextDemo ==
    \E sender \in Addresses :
        \/ \E to \in Addresses : transfer(sender, to, DemoTransfer * (10 ^ decimals))
        \/ \E mode \in VoteModes : set_vote_mode(sender, mode)
        \/ \E to \in Addresses \cup {Empty} : set_delegate(sender, to)
        \/ remove_delegate(sender)

SpecDemo == InitDemo /\ [][NextDemo]_vars


(* ------------------------------- claims -------------------------------- *)

\* The current shareholders: the accounts recorded in the ledger.
Shareholders == DOMAIN balance_of

\* The accounts whose delegation edge points at `a`.
DelegatorsOf(a) == {d \in DOMAIN delegations : delegations[d] = a}

\* The ledger is as the data model describes it: the total supply is the sum
\* of the balances and no recorded balance is 0.
LedgerConsistent ==
    /\ total_supply = SumBalances(balance_of)
    /\ \A a \in Shareholders : balance_of[a] > 0

\* Every delegation edge starts at a shareholder.
DelegatorsHoldShares == DOMAIN delegations \subseteq Shareholders

\* C1: in every reachable state total_supply is non-negative and equals the
\* sum of all balances stored in the ledger.
C1_SupplyIsSumOfBalances ==
    /\ total_supply >= 0
    /\ total_supply = SumBalances(balance_of)

RECURSIVE SumVotes(_)
\* The sum of get_votes(h) over the accounts of S, -1 if one of them raises.
SumVotes(S) ==
    IF S = {} THEN 0
    ELSE LET h == CHOOSE x \in S : TRUE
             v == get_votes(h, h)
             rest == SumVotes(S \ {h})
         IN IF v.err # NoError \/ rest = -1 THEN -1 ELSE v.val + rest

\* C2: with at least one shareholder, under either vote policy and for every
\* delegation graph, the votes of the shareholders that are not delegating
\* add up to get_total_votes().  Stated for a consistent ledger whose
\* delegators all hold shares, so that a violation rests on the delegation
\* graph alone.
C2_VotesSumToTotal ==
    (Shareholders # {} /\ LedgerConsistent /\ DelegatorsHoldShares)
        => SumVotes({h \in Shareholders : ~is_delegating(h, h)}) = get_total_votes

\* C3: for every shareholder h for which get_votes(h) returns,
\* 0 <= get_votes(h) <= get_total_votes().  Stated for a consistent ledger, so
\* that a violation does not rest on a total supply that is not the sum of the
\* balances.
C3_VotesWithinTotal ==
    LedgerConsistent =>
        \A h \in Shareholders :
            LET v == get_votes(h, h)
            IN v.err = NoError => (0 <= v.val /\ v.val <= get_total_votes)

\* C4: every recorded shareholder has a strictly positive balance; in
\* particular, a split_stock of a ledger without empty accounts leaves no
\* holder with balance 0.
C4_SplitLeavesNoEmptyHolder ==
    [][((\A a \in DOMAIN balance_of : balance_of[a] > 0)
            /\ \E factor \in Factors : split_stock(emitter, factor))
        => (\A a \in DOMAIN balance_of' : balance_of'[a] > 0)]_vars

\* C5: the organic votes of every shareholder a depend on a's own stake only:
\* a's ledger balance under the weight-proportional policy, exactly 1 under
\* one-holder-one-vote, whatever the delegation edges.  Stated for a
\* consistent ledger whose delegators all hold shares.
C5_OrganicVotesIgnoreDelegation ==
    (LedgerConsistent /\ DelegatorsHoldShares) =>
        \A a \in Shareholders :
            get_organic_votes(a, a) =
                IF vote_mode = _VOTE_POLICY_ODOV THEN Ok(balance_of[a]) ELSE Ok(1)

\* C6: the delegated votes of every shareholder a are the organic votes of its
\* direct delegators: get_delegated_shares(a) under the weight-proportional
\* policy, the number of shareholders delegating to a under
\* one-holder-one-vote.  Stated for the states whose delegators all hold
\* shares.
C6_DelegatedVotesAreDelegatorsStake ==
    DelegatorsHoldShares =>
        \A a \in Shareholders :
            get_delegated_votes(a, a) =
                IF vote_mode = _VOTE_POLICY_ODOV
                THEN get_delegated_shares(a, a)
                ELSE Ok(Cardinality(DelegatorsOf(a) \cap Shareholders))

\* C7: a shareholder a that is not delegating and whose direct delegators are
\* all shareholders has the votes of its own stake plus that of its direct
\* delegators, one level only: balance(a) + the balances of the delegators
\* under the weight-proportional policy, 1 + their number under
\* one-holder-one-vote; its shares are balance(a) + the balances of the
\* delegators under both policies.
C7_VotesAreOwnPlusDirectDelegators ==
    \A a \in Shareholders :
        (a \notin DOMAIN delegations /\ DelegatorsOf(a) \subseteq Shareholders) =>
            LET stake == balance_of[a] + SumOver(balance_of, DelegatorsOf(a))
            IN /\ get_shares(a, a) = Ok(stake)
               /\ get_votes(a, a) =
                    IF vote_mode = _VOTE_POLICY_ODOV THEN Ok(stake)
                    ELSE Ok(1 + Cardinality(DelegatorsOf(a)))

\* C7 witness: a chain d2 -> d1 -> a of three shareholders under the
\* weight-proportional policy: a counts d1's stake and not d2's.
C7_Witness ==
    /\ vote_mode = _VOTE_POLICY_ODOV
    /\ LedgerConsistent
    /\ \E a, d1, d2 \in Shareholders :
        /\ Cardinality({a, d1, d2}) = 3
        /\ a \notin DOMAIN delegations
        /\ DelegatorsOf(a) = {d1}
        /\ DelegatorsOf(d1) = {d2}
        /\ get_votes(a, a) = Ok(balance_of[a] + balance_of[d1])
        /\ get_votes(a, a).val < total_supply

\* C8: a shareholder with an outgoing delegation edge (a cycle and a
\* self-delegation included) has get_shares = 0 and get_votes = 0 under either
\* policy, whatever its balance and whoever delegates to it.
C8_DelegatingHolderHasNothing ==
    \A a \in Shareholders :
        a \in DOMAIN delegations =>
            /\ get_shares(a, a) = Ok(0)
            /\ get_votes(a, a) = Ok(0)

\* C8 witness: two shareholders with positive balances delegating to each
\* other under one-holder-one-vote; each has a delegator and no vote.
C8_Witness ==
    /\ vote_mode = _VOTE_POLICY_OPOV
    /\ \E a, b \in Shareholders :
        /\ a # b
        /\ balance_of[a] > 0 /\ balance_of[b] > 0
        /\ a \in DOMAIN delegations /\ delegations[a] = b
        /\ b \in DOMAIN delegations /\ delegations[b] = a
        /\ get_votes(a, a) = Ok(0)
        /\ get_shares(a, a) = Ok(0)

\* The last step was a split_stock that returned.
SplitReturned == last.op = "split_stock" /\ last.err = NoError

\* C9: split_stock(f) with f > 0 by the emitter turns every holder's balance
\* into floor(old balance * f), and commits and returns as total supply the sum
\* of the balances after the split.
C9_SplitFloorsAndSums ==
    [][SplitReturned' =>
        LET f == last'.args[1]
        IN /\ DOMAIN balance_of' = DOMAIN balance_of
           /\ \A a \in DOMAIN balance_of :
                /\ f[2] * balance_of'[a] <= f[1] * balance_of[a]
                /\ f[1] * balance_of[a] < f[2] * (balance_of'[a] + 1)
           /\ total_supply' = SumBalances(balance_of')
           /\ last'.ret = total_supply']_vars

\* C9 witness: a split by 1/2 of a supply of 3 held as 2 and 1 has returned:
\* the balances were truncated to 1 and 0 and the new supply is 1, not 1.5.
C9_Witness ==
    /\ SplitReturned
    /\ last.args[1] = <<1, 2>>
    /\ last.ret = 1
    /\ total_supply = 1
    /\ events = <<Burnt(emitter, 2, 1)>>
    /\ \E a, b \in DOMAIN balance_of : balance_of[a] = 1 /\ balance_of[b] = 0

\* C10: a split_stock that returns emits one notification decided by
\* drift = new total supply - old total supply: "minted" with sender = emitter,
\* amount = drift, new_supply = new total when drift > 0; "burnt" with
\* amount = -drift when drift < 0; none when drift = 0.  The amount emitted is
\* strictly positive.
C10_SplitNotifiesDrift ==
    [][SplitReturned' =>
        LET drift == total_supply' - total_supply
        IN /\ drift > 0 =>
                /\ Len(events') = 1
                /\ events'[1].type = "minted"
                /\ events'[1].sender = emitter
                /\ events'[1].amount = drift
                /\ events'[1].new_supply = total_supply'
           /\ drift < 0 =>
                /\ Len(events') = 1
                /\ events'[1].type = "burnt"
                /\ events'[1].amount = -drift
           /\ drift = 0 => events' = <<>>
           /\ \A i \in 1..Len(events') : events'[i].amount > 0]_vars

\* C10 witness: a split has returned and emitted a "minted" notification.
C10_Witness ==
    /\ SplitReturned
    /\ Len(events) = 1
    /\ events[1].type = "minted"
    /\ events[1].amount > 0
    /\ events[1].new_supply = total_supply


\* The calls reserved to the emitter.
EmitterOnly == {"mint", "burn", "split_stock", "set_vote_mode", "set_dividend"}

\* C11: mint, burn, split_stock, set_vote_mode and set_dividend called by a
\* sender that is not the emitter fail with an Unauthorized error and leave
\* balances, total supply, vote mode, dividend and delegations unchanged.
C11_NonEmitterIsRefused ==
    [][(last'.op \in EmitterOnly /\ last'.sender # emitter) =>
        /\ last'.err = Unauthorized
        /\ UNCHANGED <<balance_of, total_supply, vote_mode, dividend, delegations>>]_vars

\* C11 witness: after init, a sender that is not the emitter has called mint
\* with a positive amount on a registry with holders and delegations, and was
\* refused.
C11_Witness ==
    /\ emitter # Empty
    /\ last.op = "mint"
    /\ last.args[1] > 0
    /\ last.sender # emitter
    /\ last.err = Unauthorized
    /\ \E a \in Shareholders : balance_of[a] > 0
    /\ DOMAIN delegations # {}


\* C12: once init has run, no call changes the emitter: it stays the one the
\* first init designated.
C12_EmitterIsImmutable ==
    [][emitter # Empty => emitter' = emitter]_vars

\* C14: split_stock(f) with f <= 0 called by the emitter fails with an
\* InvalidArgument error; every balance, the total supply and the set of
\* shareholders are unchanged and no notification is emitted.
C14_NonPositiveSplitIsRefused ==
    [][(last'.op = "split_stock" /\ last'.sender = emitter /\ last'.args[1][1] <= 0) =>
        /\ last'.err = InvalidArgument
        /\ balance_of' = balance_of
        /\ total_supply' = total_supply
        /\ events' = <<>>]_vars

\* C14 witness: the emitter has called split_stock(0) on a ledger with two
\* holders and was refused with InvalidArgument.
C14_Witness ==
    /\ last.op = "split_stock"
    /\ last.sender = emitter
    /\ last.args[1] = <<0, 1>>
    /\ last.err = InvalidArgument
    /\ events = <<>>
    /\ \E a, b \in Shareholders : a # b /\ balance_of[a] > 0 /\ balance_of[b] > 0


\* C13: omitting the address argument of a query gives exactly the result, or
\* the error, of passing the calling sender's address.
C13_OmittedAddressIsSender ==
    \A s \in Addresses :
        /\ get_delegate(s, None) = get_delegate(s, s)
        /\ is_shareholder(s, None) = is_shareholder(s, s)
        /\ is_delegating(s, None) = is_delegating(s, s)
        /\ get_delegators(s, None) = get_delegators(s, s)
        /\ get_organic_shares(s, None) = get_organic_shares(s, s)
        /\ get_delegated_shares(s, None) = get_delegated_shares(s, s)
        /\ get_shares(s, None) = get_shares(s, s)
        /\ get_organic_votes(s, None) = get_organic_votes(s, s)
        /\ get_delegated_votes(s, None) = get_delegated_votes(s, s)
        /\ get_votes(s, None) = get_votes(s, s)
        /\ get_organic_weight(s, None) = get_organic_weight(s, s)
        /\ get_delegated_weight(s, None) = get_delegated_weight(s, s)
        /\ get_weight(s, None) = get_weight(s, s)
        /\ is_majority(s, None) = is_majority(s, s)
        /\ is_organic_majority(s, None) = is_organic_majority(s, s)
        /\ get_rights(s, None) = get_rights(s, s)
        /\ get_organic_rights(s, None) = get_organic_rights(s, s)

\* C13, for get_delegators alone, whose default is resolved in
\* src/equity.py only, in states where the ledger is consistent and every
\* delegator holds shares.
C13_OmittedAddressDelegators ==
    (LedgerConsistent /\ DelegatorsHoldShares) =>
        \A s \in Addresses : get_delegators(s, None) = get_delegators(s, s)


\* The delegate recorded for `a`, or Empty.
EdgeOf(a) == IF a \in DOMAIN delegations THEN delegations[a] ELSE Empty

\* C15: set_delegate with an empty delegate fails with InvalidArgument and
\* leaves the delegation graph unchanged; with a delegate d it returns the
\* sender's previous delegate (empty if none), makes get_delegate(sender) = d
\* and changes no other address's edge; remove_delegate returns the removed
\* delegate and removes the sender's edge only, and returns empty changing
\* nothing when there was none.
C15_DelegateIsSwappedAndReturned ==
    [][\A sender \in Addresses : last'.sender = sender =>
        /\ (last'.op = "set_delegate" /\ last'.args[1] = Empty) =>
            /\ last'.err = InvalidArgument
            /\ delegations' = delegations
        /\ (last'.op = "set_delegate" /\ last'.args[1] # Empty) =>
            /\ last'.err = NoError
            /\ last'.ret = EdgeOf(sender)
            /\ get_delegate(sender, None)' = last'.args[1]
            /\ \A x \in Addresses \ {sender} : EdgeOf(x)' = EdgeOf(x)
        /\ last'.op = "remove_delegate" =>
            /\ last'.err = NoError
            /\ last'.ret = EdgeOf(sender)
            /\ get_delegate(sender, None)' = Empty
            /\ \A x \in Addresses \ {sender} : EdgeOf(x)' = EdgeOf(x)
            /\ last'.ret = Empty => delegations' = delegations]_vars

\* C15 witness: a sender that had a delegate has just replaced it by another
\* one and was returned the previous one, while another address keeps its edge.
C15_Witness ==
    /\ last.op = "set_delegate"
    /\ last.err = NoError
    /\ last.ret \notin {Empty, last.args[1]}
    /\ EdgeOf(last.sender) = last.args[1]
    /\ \E x \in DOMAIN delegations : x # last.sender

\* C16: get_delegators(a) fails with NotAShareholder when a is not a current
\* shareholder, that is when a has no balance or a balance of 0, and for a
\* current shareholder returns exactly the addresses x with get_delegate(x) = a.
C16_DelegatorsOfCurrentShareholders ==
    \A s, a \in Addresses :
        get_delegators(s, a) =
            IF BalancesGet(balance_of, a) = 0 THEN Raise(NotAShareholder)
            ELSE Ok({x \in Addresses : get_delegate(x, x) = a})

\* C16 with the accounts recorded in the ledger for the shareholders, whatever
\* their balance: get_delegators(a) fails with NotAShareholder exactly for the
\* accounts not recorded and otherwise returns the addresses x with
\* get_delegate(x) = a; a call of it changes nothing of the registry.
C16_DelegatorsOfRecordedAccounts ==
    /\ [](\A s, a \in Addresses :
            get_delegators(s, a) =
                IF a \notin Shareholders THEN Raise(NotAShareholder)
                ELSE Ok({x \in Addresses : get_delegate(x, x) = a}))
    /\ [][last'.op = "get_delegators" =>
            /\ UNCHANGED state
            /\ IF last'.args[1] \notin Shareholders
               THEN last'.err = NotAShareholder
               ELSE /\ last'.err = NoError
                    /\ last'.ret = {x \in Addresses : EdgeOf(x) = last'.args[1]}]_vars

\* What the vote queries answer, with the ledger and the delegation graph
\* they are computed from.
VoteView ==
    [vote_mode |-> vote_mode,
     total_votes |-> get_total_votes,
     votes |-> [a \in Addresses |-> get_votes(a, a)],
     weight |-> [a \in Addresses |-> get_weight(a, a)],
     balance_of |-> balance_of,
     total_supply |-> total_supply,
     delegations |-> delegations]

\* The first call of the pair has returned m1 and set m2 without touching the
\* ledger or the delegation graph.
C17_AfterFirst(before, m1, m2) ==
    /\ last.op = "set_vote_mode" /\ last.err = NoError
    /\ last.ret = m1
    /\ vote_mode = m2
    /\ balance_of = before.balance_of
    /\ total_supply = before.total_supply
    /\ delegations = before.delegations

\* The second call of the pair has returned m2 and every answer is as before
\* the first call.
C17_AfterSecond(before, m1, m2) ==
    /\ last.op = "set_vote_mode" /\ last.err = NoError
    /\ last.ret = m2
    /\ VoteView = before

\* C17: from any state with an emitter, the emitter calling set_vote_mode(m2)
\* and then set_vote_mode(m1), m1 being the mode before the first call, gets
\* m1 and then m2 returned, and the vote mode, get_total_votes() and the
\* get_votes and get_weight of every address are as before the first call;
\* neither call changes balances, total supply or delegations.
C17_ModeToggleRestores ==
    \A e \in Addresses, m1, m2 \in VoteModes, before \in {VoteView} :
        (e = emitter /\ m1 = vote_mode) =>
            /\ ENABLED set_vote_mode(e, m2)
            /\ ~ENABLED (/\ set_vote_mode(e, m2)
                         /\ ~(/\ C17_AfterFirst(before, m1, m2)
                              /\ ENABLED set_vote_mode(e, m1)
                              /\ ~ENABLED (/\ set_vote_mode(e, m1)
                                           /\ ~C17_AfterSecond(before, m1, m2)'))')

\* C17 witness: the emitter has just set the mode back after a switch, in a
\* registry where a holder's votes differ between the two policies.
C17_Witness ==
    /\ last.op = "set_vote_mode" /\ last.err = NoError
    /\ last.sender = emitter
    /\ last.ret # last.args[1]
    /\ \E a \in Shareholders :
        /\ get_votes(a, a).err = NoError
        /\ get_votes(a, a).val >= 2
        /\ DelegatorsOf(a) # {}


\* The thresholds of the four brackets, in hundredths, in ascending order.
C18_Thresholds == <<5, 10, 15, 25>>

RECURSIVE C18_FirstBrackets(_)
\* The right-lists of the first k brackets of the table, one after the other.
C18_FirstBrackets(k) ==
    IF k = 0 THEN <<>>
    ELSE C18_FirstBrackets(k - 1) \o _SHAREHOLDERS_RIGHTS[k].rights

\* The rights the weight n / d is entitled to: the brackets whose threshold
\* is at most n / d.
C18_RightsAt(n, d) ==
    C18_FirstBrackets(Cardinality({i \in 1..4 : C18_Thresholds[i] * d <= 100 * n}))

\* s is a prefix of t.
C18_IsPrefix(s, t) == Len(s) <= Len(t) /\ SubSeq(t, 1, Len(s)) = s

\* C18: the rights returned for a weight are the right-lists of every bracket
\* whose threshold (0.05, 0.10, 0.15, 0.25) is at most the weight, in
\* ascending threshold order, the boundary included and nothing below 0.05;
\* so of two weights the smaller one's rights are a prefix of the larger
\* one's. Stated of every weight k / total supply and the next smaller one,
\* of every holder's get_rights and get_organic_rights, of every two holders,
\* and of every answered get_rights call.
C18_RightsByThreshold ==
    /\ \A i \in 1..4 :
        _SHAREHOLDERS_RIGHTS[i].min_weight = <<C18_Thresholds[i], 100>>
    /\ \A k \in 0..total_supply :
        /\ _get_rights(<<k, total_supply>>) = C18_RightsAt(k, total_supply)
        /\ k > 0 =>
            C18_IsPrefix(_get_rights(<<k - 1, total_supply>>), _get_rights(<<k, total_supply>>))
    /\ \A a \in Shareholders :
        /\ get_rights(a, a) = Ok(C18_RightsAt(balance_of[a], total_supply))
        /\ get_organic_rights(a, a) = Ok(C18_RightsAt(balance_of[a], total_supply))
        /\ \A b \in Shareholders :
            balance_of[a] < balance_of[b] =>
                C18_IsPrefix(get_rights(a, a).val, get_rights(b, b).val)
    /\ (last.op = "get_rights" /\ last.err = NoError) =>
        last.ret = C18_RightsAt(balance_of[last.args[1]], total_supply)

\* C18 witness: get_rights has just answered for a holder weighing exactly
\* 0.15 with the seven rights of the first three brackets, while another
\* holder weighs less than 0.05 and a third at least 0.25.
C18_Witness ==
    /\ last.op = "get_rights" /\ last.err = NoError
    /\ 100 * balance_of[last.args[1]] = 15 * total_supply
    /\ Len(last.ret) = 7
    /\ \E b, c \in Shareholders :
        /\ 100 * balance_of[b] < 5 * total_supply
        /\ get_rights(b, b) = Ok(<<>>)
        /\ 100 * balance_of[c] >= 25 * total_supply
        /\ Len(get_rights(c, c).val) = 8


\* The ledger of test.py after the transfer to "John Doe", here a2, with no
\* delegation.
C19_Demo ==
    /\ balance_of = [x \in {"a1", "a2"} |->
                        IF x = "a1" THEN DemoSupply - DemoTransfer ELSE DemoTransfer]
    /\ delegations = EmptyDict

\* C19: is_majority(a) is true exactly when 2 * get_votes(a) >
\* get_total_votes(), so a holder with exactly half is not a majority, and it
\* fails when get_votes(a) fails. In the scenario of test.py John has 1200000
\* shares and votes out of 13000000 and is not a majority under the
\* weight-proportional policy, and has 1 vote out of 2 and is not a majority
\* under one-holder-one-vote.
C19_MajorityIsMoreThanHalf ==
    /\ \A a \in Addresses :
        IF get_votes(a, a).err = NoError /\ get_total_votes # 0
        THEN is_majority(a, a) = Ok(2 * get_votes(a, a).val > get_total_votes)
        ELSE is_majority(a, a).err # NoError
    /\ (C19_Demo /\ vote_mode = _VOTE_POLICY_ODOV) =>
        /\ get_shares("a1", "a2") = Ok(DemoTransfer)
        /\ get_votes("a1", "a2") = Ok(DemoTransfer)
        /\ get_total_votes = DemoSupply
        /\ is_majority("a1", "a2") = Ok(FALSE)
    /\ (C19_Demo /\ vote_mode = _VOTE_POLICY_OPOV) =>
        /\ get_shares("a1", "a2") = Ok(DemoTransfer)
        /\ get_votes("a1", "a2") = Ok(1)
        /\ get_total_votes = 2
        /\ is_majority("a1", "a2") = Ok(FALSE)

\* The delegators of `a` that are shareholders: the valid edges into `a`.
C20_ValidDelegators(a) == DelegatorsOf(a) \cap Shareholders

\* C20: a delegation edge whose delegator is not a shareholder counts for
\* nothing: in a consistent ledger, under either policy, the delegated shares
\* of a shareholder are those of its shareholder delegators only, under
\* one-holder-one-vote its delegated votes are their number, and get_shares,
\* get_votes and get_weight on it return a result. (The delegated votes under
\* the weight-proportional policy are the matter of C6.)
C20_InvalidEdgeCountsNothing ==
    LedgerConsistent =>
        \A a \in Shareholders :
            /\ get_delegated_shares(a, a) = Ok(SumOver(balance_of, C20_ValidDelegators(a)))
            /\ vote_mode = _VOTE_POLICY_OPOV =>
                 get_delegated_votes(a, a) = Ok(Cardinality(C20_ValidDelegators(a)))
            /\ get_shares(a, a).err = NoError
            /\ get_votes(a, a).err = NoError
            /\ get_weight(a, a).err = NoError

\* C20 under one-holder-one-vote alone: the delegated votes of a shareholder
\* are the number of its shareholder delegators.
C20_InvalidEdgeHasNoVote ==
    (LedgerConsistent /\ vote_mode = _VOTE_POLICY_OPOV) =>
        \A a \in Shareholders :
            get_delegated_votes(a, a) = Ok(Cardinality(C20_ValidDelegators(a)))


====
